---- MODULE Spec2Model ----
(***************************************************************************)
(* A state-machine model of coder_bot.py: the Streamlit chat front-end     *)
(* that keeps a turn log in st.session_state.messages, assembles a context *)
(* window per submission, and consumes a streamed reply from ollama.chat.  *)
(* Texts are TLA+ strings; Len, SubSeq and \o act on them character-wise.  *)
(***************************************************************************)
EXTENDS Integers, Sequences, FiniteSets, TLC

VARIABLES
    messages,          \* st.session_state.messages: the turn log
    model,             \* st.session_state.model
    selected_lang,     \* sidebar selectbox
    level,             \* sidebar select_slider
    temperature,       \* sidebar slider, in tenths (3 is 0.3)
    pc,                \* position of the current script run in the chat handler
    prompt,            \* the submitted text of the current request
    log_before,        \* st.session_state.messages as the handler found it
    prior_history,     \* the trimmed history of line 137
    context_messages,  \* the message list handed to ollama.chat
    request,           \* the keyword arguments of the ollama.chat call
    stream,            \* fragments the service has still to deliver
    consumed,          \* fragments the for loop has taken so far
    full_response,     \* the response buffer
    updates,           \* calls made on response_placeholder, in order
    error_shown,       \* st.error / st.info of the outer except were called
    submitted,         \* number of chat submissions so far in the session
    trim_messages,     \* argument `messages` of get_trimmed_history
    trim_max_pairs,    \* argument `max_pairs` of get_trimmed_history
    trim_result,       \* [done, value]: its return value
    san_text,          \* argument `text` of sanitize_output
    san_once,          \* [done, value]: sanitize_output(text)
    san_twice          \* [done, value]: sanitize_output(sanitize_output(text))

session_vars == <<messages, model, selected_lang, level, temperature>>
request_vars == <<pc, prompt, log_before, prior_history, context_messages, request, stream, consumed,
                  full_response, updates, error_shown>>
trim_vars == <<trim_messages, trim_max_pairs, trim_result>>
san_vars == <<san_text, san_once, san_twice>>
vars == <<session_vars, request_vars, submitted, trim_vars, san_vars>>

-----------------------------------------------------------------------------
(* Bounds of the model *)

MaxSubmit == 2      \* chat submissions explored per session
MaxSeed == 21       \* longest turn log a long-running session starts from
MaxTrimLen == 5     \* longest log handed to get_trimmed_history on its own
MaxPairs == 2       \* largest max_pairs handed to get_trimmed_history on its own
MaxPieces == 3      \* pieces concatenated into an input of sanitize_output
MaxLiveSeed == 3    \* longest turn log a session checked for progress starts from

-----------------------------------------------------------------------------
(* CONFIGURATION, lines 7-22 *)

DEFAULT_MODEL == "codellama:7b"
MAX_HISTORY == 10
NUM_CTX == 4096
NUM_PREDICT == 1024
DEFAULT_TEMPERATURE == 3

LANG_CONFIG == {"Python", "JavaScript", "C++", "Java"}
LEVELS == {"Beginner", "Intermediate", "Advanced"}

BAD_TOKENS == << "<|fim_prefix|>", "<|fim_suffix|>", "<|fim_middle|>",
                 "<|file_separator|>" >>

-----------------------------------------------------------------------------
(* Python string primitives used by the helpers *)

\* text[i:].startswith(tok), with i counted from 1
MatchAt(text, tok, i) ==
    /\ i + Len(tok) - 1 <= Len(text)
    /\ SubSeq(text, i, i + Len(tok) - 1) = tok

RECURSIVE ReplaceFrom(_, _, _)
\* str.replace(tok, "") from position i: leftmost non-overlapping occurrences
ReplaceFrom(text, tok, i) ==
    IF i > Len(text) THEN ""
    ELSE IF MatchAt(text, tok, i) THEN ReplaceFrom(text, tok, i + Len(tok))
    ELSE SubSeq(text, i, i) \o ReplaceFrom(text, tok, i + 1)

\* text.replace(tok, ""); the receiver is evaluated once and bound to t
StrRemove(text, tok) == CHOOSE r \in {ReplaceFrom(t, tok, 1) : t \in {text}} : TRUE

Whitespace == {" ", "\n", "\t"}

RECURSIVE LStrip(_)
LStrip(text) ==
    IF Len(text) > 0 /\ SubSeq(text, 1, 1) \in Whitespace
    THEN LStrip(SubSeq(text, 2, Len(text)))
    ELSE text

RECURSIVE RStrip(_)
RStrip(text) ==
    IF Len(text) > 0 /\ SubSeq(text, Len(text), Len(text)) \in Whitespace
    THEN RStrip(SubSeq(text, 1, Len(text) - 1))
    ELSE text

\* str.strip(); the receiver is evaluated once and bound to t
Strip(text) == CHOOSE r \in {RStrip(LStrip(t)) : t \in {text}} : TRUE

\* lst[start:] for a Python list held as a 1-based sequence; a negative start
\* counts from the end, and -0 is 0
SliceFrom(lst, start) ==
    LET n == Len(lst)
        first == IF start < 0 THEN (IF n + start < 0 THEN 0 ELSE n + start)
                 ELSE (IF start > n THEN n ELSE start)
    IN  SubSeq(lst, first + 1, n)

-----------------------------------------------------------------------------
(* HELPER FUNCTIONS, lines 27-61 *)

RECURSIVE SanitizeLoop(_, _)
\* the for loop of sanitize_output from the k-th token on
SanitizeLoop(text, k) ==
    IF k > Len(BAD_TOKENS) THEN text
    ELSE SanitizeLoop(StrRemove(text, BAD_TOKENS[k]), k + 1)

sanitize_output(text) == SanitizeLoop(text, 1)

\* the three emoji and the dashes of lines 47-49 are written in ASCII
build_system_prompt(language, lvl) ==
    "You are PolyMentor AI, a coding tutor specializing in " \o language \o ".\n"
    \o "The user's skill level is: " \o lvl \o ".\n\n"
    \o "Rules:\n"
    \o "- Answer ONLY the user's question. Do not go off-topic.\n"
    \o "- Always produce correct, runnable code.\n"
    \o "- Use markdown code blocks with the correct language tag.\n"
    \o "- Add inline comments for beginners.\n"
    \o "- Be concise and structured.\n"
    \o "- Never output internal model tokens.\n\n"
    \o "Response format:\n"
    \o "(book) Concept - brief explanation\n"
    \o "(bulb) Example - working code\n"
    \o "(brain) Tip - one useful takeaway\n"

Turn(role, content) == [role |-> role, content |-> content]

\* [m for m in messages if m["role"] in ("user", "assistant")]
ChatMessages(msgs) ==
    SelectSeq(msgs, LAMBDA m : m.role \in {"user", "assistant"})

get_trimmed_history(msgs, max_pairs) ==
    SliceFrom(ChatMessages(msgs), -(max_pairs * 2))

-----------------------------------------------------------------------------
(* Fragments of the streamed reply, lines 163-177 *)

StrVal(t) == [type |-> "str", val |-> t]
NoneVal == [type |-> "none", val |-> ""]
IntVal == [type |-> "int", val |-> ""]

\* {"message": {"content": t}}
DictChunk(t) == [shape |-> "dict", message |-> "present", content |-> StrVal(t)]
\* an object whose .message.content is t
ObjChunk(t) == [shape |-> "object", message |-> "present", content |-> StrVal(t)]
\* an object whose .message.content is None
ObjNoneChunk == [shape |-> "object", message |-> "present", content |-> NoneVal]
\* a dict with no "message" key
DictNoMessage == [shape |-> "dict", message |-> "missing", content |-> NoneVal]
\* {"message": None}: .get on None raises AttributeError
DictNullMessage == [shape |-> "dict", message |-> "null", content |-> NoneVal]
\* {"message": {"content": 7}}: sanitize_output raises on text.replace
DictIntContent == [shape |-> "dict", message |-> "present", content |-> IntVal]
\* neither a dict nor an object with a message attribute
OtherChunk == [shape |-> "other", message |-> "missing", content |-> NoneVal]

\* lines 166-170: the value bound to `content`, or that the extraction raised
ExtractContent(chunk) ==
    IF chunk.shape = "dict" THEN
        IF chunk.message = "missing" THEN [raised |-> FALSE, content |-> StrVal("")]
        ELSE IF chunk.message = "null" THEN [raised |-> TRUE, content |-> NoneVal]
        ELSE [raised |-> FALSE, content |-> chunk.content]
    ELSE IF chunk.shape = "object" THEN
        IF chunk.message = "null" THEN [raised |-> TRUE, content |-> NoneVal]
        ELSE IF chunk.content.type = "none"
             THEN [raised |-> FALSE, content |-> StrVal("")]
             ELSE [raised |-> FALSE, content |-> chunk.content]
    ELSE [raised |-> FALSE, content |-> StrVal("")]

\* Python truthiness of `content` at line 172
Truthy(v) == \/ v.type = "int"
             \/ v.type = "str" /\ v.val # ""

\* line 174 without the sanitize_output of line 173
ChunkStep_Unsanitized(chunk) ==
    LET e == ExtractContent(chunk) IN
    IF e.raised THEN [caught |-> TRUE, appends |-> FALSE, token |-> ""]
    ELSE IF ~Truthy(e.content) THEN [caught |-> FALSE, appends |-> FALSE, token |-> ""]
    ELSE IF e.content.type # "str" THEN [caught |-> TRUE, appends |-> FALSE, token |-> ""]
    ELSE [caught |-> FALSE, appends |-> TRUE, token |-> e.content.val]

\* lines 172-175 with str(content): a payload that is no string is appended
ChunkStep_StringifiesBad(chunk) ==
    LET e == ExtractContent(chunk) IN
    IF e.raised THEN [caught |-> TRUE, appends |-> FALSE, token |-> ""]
    ELSE IF ~Truthy(e.content) THEN [caught |-> FALSE, appends |-> FALSE, token |-> ""]
    ELSE IF e.content.type # "str" THEN [caught |-> FALSE, appends |-> TRUE, token |-> "7"]
    ELSE [caught |-> FALSE, appends |-> TRUE, token |-> sanitize_output(e.content.val)]

\* lines 165-177 for one chunk: what is added to full_response, whether
\* anything is added at all, and whether the inner except was taken
ChunkStep(chunk) ==
    LET e == ExtractContent(chunk) IN
    IF e.raised THEN [caught |-> TRUE, appends |-> FALSE, token |-> ""]
    ELSE IF ~Truthy(e.content) THEN [caught |-> FALSE, appends |-> FALSE, token |-> ""]
    ELSE IF e.content.type # "str" THEN [caught |-> TRUE, appends |-> FALSE, token |-> ""]
    ELSE [caught |-> FALSE, appends |-> TRUE, token |-> sanitize_output(e.content.val)]

\* the cursor glyph of line 175, written in ASCII
CURSOR == "#"

Markdown(text) == [kind |-> "markdown", text |-> text]
Warning == [kind |-> "warning", text |-> "The model returned an empty response."]

-----------------------------------------------------------------------------
(* Inputs *)

Prompts == {"how?", "why?"}
Langs == {"Python", "C++"}
Levels == {"Beginner", "Advanced"}
Temperatures == {3, 10}

\* replies the inference service may stream
Streams == {
    << DictChunk("Hel"), ObjChunk("lo"), DictChunk(" <|fim_prefix|>world") >>,
    << >>,
    << DictNoMessage, ObjNoneChunk, OtherChunk >>,
    << DictChunk("<|fim_middle|>"), ObjChunk(" \n") >>,
    << DictChunk("Hel"), DictNullMessage, ObjChunk("lo") >>,
    << DictIntContent >>,
    << DictChunk("ok <|fim_"), ObjChunk("prefix|>") >>,
    << DictChunk("<|fim_<|fim_<|fim_prefix|>prefix|>prefix|>") >>,
    << ObjChunk("  hi \n") >> }

-----------------------------------------------------------------------------
(* The script: session init, sidebar and chat handler *)

Resting == {"idle", "completed", "empty", "failed"}
InFlight == {"awaiting", "streaming"}

NoRequest == [model |-> "", messages |-> << >>, stream |-> FALSE,
              temperature |-> 0, num_ctx |-> 0, num_predict |-> 0]

\* a script run that has not entered the chat handler: its locals are unset
\* and the page shows only the stored turns
NoHandler ==
    /\ pc' = "idle"
    /\ prompt' = ""
    /\ log_before' = << >>
    /\ prior_history' = << >>
    /\ context_messages' = << >>
    /\ request' = NoRequest
    /\ stream' = << >>
    /\ consumed' = << >>
    /\ full_response' = ""
    /\ updates' = << >>
    /\ error_shown' = FALSE

FunctionsIdle ==
    /\ trim_messages = << >> /\ trim_max_pairs = 0
    /\ trim_result = [done |-> FALSE, value |-> << >>]
    /\ san_text = ""
    /\ san_once = [done |-> FALSE, value |-> ""]
    /\ san_twice = [done |-> FALSE, value |-> ""]

\* lines 76-96: session init and the widgets' defaults; no handler has run
SessionInit ==
    /\ messages = << >>
    /\ model = DEFAULT_MODEL
    /\ selected_lang = "Python"
    /\ level = "Beginner"
    /\ temperature = DEFAULT_TEMPERATURE
    /\ pc = "idle"
    /\ prompt = ""
    /\ log_before = << >>
    /\ prior_history = << >>
    /\ context_messages = << >>
    /\ request = NoRequest
    /\ stream = << >>
    /\ consumed = << >>
    /\ full_response = ""
    /\ updates = << >>
    /\ error_shown = FALSE
    /\ submitted = 0

Init == SessionInit /\ FunctionsIdle

\* lines 139-143
AssembleContext(language, lvl, history, text) ==
    << Turn("system", build_system_prompt(language, lvl)) >>
    \o history
    \o << Turn("user", text) >>

\* line 137 without the [:-1]: the stored user turn is trimmed into the history
AllButLast_KeepsLast(msgs) == msgs

\* line 137: st.session_state.messages[:-1]
AllButLast(msgs) == SubSeq(msgs, 1, Len(msgs) - 1)

\* the handler with the buffer kept across runs instead of reset at line 148
Submit_KeepsBuffer(text, s) ==
    /\ pc \in Resting
    /\ submitted < MaxSubmit
    /\ submitted' = submitted + 1
    /\ prompt' = text
    /\ log_before' = messages
    /\ messages' = Append(messages, Turn("user", text))
    /\ prior_history' = get_trimmed_history(AllButLast(messages'), MAX_HISTORY)
    /\ context_messages' = AssembleContext(selected_lang, level, prior_history', text)
    /\ request' = [model |-> model, messages |-> context_messages', stream |-> TRUE,
                   temperature |-> temperature, num_ctx |-> NUM_CTX,
                   num_predict |-> NUM_PREDICT]
    /\ stream' = s
    /\ consumed' = << >>
    /\ full_response' = full_response
    /\ updates' = << >>
    /\ error_shown' = FALSE
    /\ pc' = "awaiting"
    /\ UNCHANGED <<model, selected_lang, level, temperature>>

\* lines 126-161: a text is submitted; the handler stores the user turn, builds
\* the context and calls the service, whose reply will be the stream s
Submit(text, s) ==
    /\ pc \in Resting
    /\ submitted < MaxSubmit
    /\ submitted' = submitted + 1
    /\ prompt' = text
    /\ log_before' = messages
    /\ messages' = Append(messages, Turn("user", text))
    /\ prior_history' = get_trimmed_history(AllButLast(messages'), MAX_HISTORY)
    /\ context_messages' = AssembleContext(selected_lang, level, prior_history', text)
    /\ request' = [model |-> model, messages |-> context_messages', stream |-> TRUE,
                   temperature |-> temperature, num_ctx |-> NUM_CTX,
                   num_predict |-> NUM_PREDICT]
    /\ stream' = s
    /\ consumed' = << >>
    /\ full_response' = ""
    /\ updates' = << >>
    /\ error_shown' = FALSE
    /\ pc' = "awaiting"
    /\ UNCHANGED <<model, selected_lang, level, temperature>>

\* the loop saving the buffer into the log while it streams
NextChunk_StoresPartial ==
    /\ pc \in InFlight
    /\ stream # << >>
    /\ LET chunk == Head(stream)
           step == ChunkStep(chunk)
       IN  /\ full_response' = IF step.appends THEN full_response \o step.token
                               ELSE full_response
           /\ updates' = IF step.appends
                         THEN Append(updates, Markdown(full_response' \o CURSOR))
                         ELSE updates
           /\ messages' = IF step.appends
                          THEN Append(messages, Turn("assistant", full_response'))
                          ELSE messages
           /\ consumed' = Append(consumed, chunk)
    /\ stream' = Tail(stream)
    /\ pc' = "streaming"
    /\ UNCHANGED <<model, selected_lang, level, temperature, prompt, log_before,
                   prior_history, context_messages, request, error_shown, submitted>>

\* the loop saving the assistant turn as soon as the last fragment is taken
NextChunk_StoresOnLast ==
    /\ pc \in InFlight
    /\ stream # << >>
    /\ LET chunk == Head(stream)
           step == ChunkStep(chunk)
       IN  /\ full_response' = IF step.appends THEN full_response \o step.token
                               ELSE full_response
           /\ updates' = IF step.appends
                         THEN Append(updates, Markdown(full_response' \o CURSOR))
                         ELSE updates
           /\ messages' = IF Tail(stream) = << >> /\ full_response' # ""
                          THEN Append(messages, Turn("assistant", full_response'))
                          ELSE messages
           /\ consumed' = Append(consumed, chunk)
    /\ stream' = Tail(stream)
    /\ pc' = "streaming"
    /\ UNCHANGED <<model, selected_lang, level, temperature, prompt, log_before,
                   prior_history, context_messages, request, error_shown, submitted>>

\* the loop redrawing the placeholder only when the sanitized token is not empty
NextChunk_SkipsEmptyRedraw ==
    /\ pc \in InFlight
    /\ stream # << >>
    /\ LET chunk == Head(stream)
           step == ChunkStep(chunk)
       IN  /\ full_response' = IF step.appends THEN full_response \o step.token
                               ELSE full_response
           /\ updates' = IF step.appends /\ step.token # ""
                         THEN Append(updates, Markdown(full_response' \o CURSOR))
                         ELSE updates
           /\ consumed' = Append(consumed, chunk)
    /\ stream' = Tail(stream)
    /\ pc' = "streaming"
    /\ UNCHANGED <<session_vars, prompt, log_before, prior_history, context_messages,
                   request, error_shown, submitted>>

\* lines 163-177: the for loop takes the next fragment
NextChunk ==
    /\ pc \in InFlight
    /\ stream # << >>
    /\ LET chunk == Head(stream)
           step == ChunkStep(chunk)
       IN  /\ full_response' = IF step.appends THEN full_response \o step.token
                               ELSE full_response
           /\ updates' = IF step.appends
                         THEN Append(updates, Markdown(full_response' \o CURSOR))
                         ELSE updates
           /\ consumed' = Append(consumed, chunk)
    /\ stream' = Tail(stream)
    /\ pc' = "streaming"
    /\ UNCHANGED <<session_vars, prompt, log_before, prior_history, context_messages,
                   request, error_shown, submitted>>

\* line 180 without the .strip()
FinalText_NoStrip(buffer) == sanitize_output(buffer)

\* line 180 with the two calls in the other order
FinalText_StripsFirst(buffer) == sanitize_output(Strip(buffer))

\* line 180: sanitize_output(full_response).strip()
FinalText(buffer) == Strip(sanitize_output(buffer))

\* lines 182-195 with the append moved out of the `if full_response:` branch
EndOfStream_AlwaysStores ==
    /\ pc \in InFlight
    /\ stream = << >>
    /\ full_response' = FinalText(full_response)
    /\ messages' = Append(messages, Turn("assistant", full_response'))
    /\ IF full_response' # ""
       THEN /\ updates' = Append(updates, Markdown(full_response'))
            /\ pc' = "completed"
       ELSE /\ updates' = Append(updates, Warning)
            /\ pc' = "empty"
    /\ UNCHANGED <<model, selected_lang, level, temperature, prompt, log_before,
                   prior_history, context_messages, request, stream, consumed,
                   error_shown, submitted>>

\* the final render waiting until the buffer holds text
EndOfStream_WaitsForText ==
    /\ pc \in InFlight
    /\ stream = << >>
    /\ FinalText(full_response) # ""
    /\ full_response' = FinalText(full_response)
    /\ updates' = Append(updates, Markdown(full_response'))
    /\ messages' = Append(messages, Turn("assistant", full_response'))
    /\ pc' = "completed"
    /\ UNCHANGED <<model, selected_lang, level, temperature, prompt, log_before,
                   prior_history, context_messages, request, stream, consumed,
                   error_shown, submitted>>

\* lines 179-195: the stream is exhausted
EndOfStream ==
    /\ pc \in InFlight
    /\ stream = << >>
    /\ full_response' = FinalText(full_response)
    /\ IF full_response' # ""
       THEN /\ updates' = Append(updates, Markdown(full_response'))
            /\ messages' = Append(messages, Turn("assistant", full_response'))
            /\ pc' = "completed"
       ELSE /\ updates' = Append(updates, Warning)
            /\ messages' = messages
            /\ pc' = "empty"
    /\ UNCHANGED <<model, selected_lang, level, temperature, prompt, log_before,
                   prior_history, context_messages, request, stream, consumed,
                   error_shown, submitted>>

\* the outer except saving what was streamed so far as the assistant turn
ServiceFails_KeepsPartial ==
    /\ pc \in InFlight
    /\ error_shown' = TRUE
    /\ stream' = << >>
    /\ pc' = "failed"
    /\ messages' = IF full_response # ""
                   THEN Append(messages, Turn("assistant", full_response))
                   ELSE messages
    /\ UNCHANGED <<model, selected_lang, level, temperature, prompt, log_before,
                   prior_history, context_messages, request, consumed, full_response,
                   updates, submitted>>

\* lines 197-202: ollama.chat, or the fetch of the next fragment, raises
ServiceFails ==
    /\ pc \in InFlight
    /\ error_shown' = TRUE
    /\ stream' = << >>
    /\ pc' = "failed"
    /\ UNCHANGED <<session_vars, prompt, log_before, prior_history, context_messages,
                   request, consumed, full_response, updates, submitted>>

\* the button clearing the whole session state, which the next run
\* re-initialises with the defaults
ClearChat_ResetsSession ==
    /\ pc \in Resting
    /\ messages' = << >>
    /\ model' = DEFAULT_MODEL
    /\ selected_lang' = "Python"
    /\ level' = "Beginner"
    /\ temperature' = DEFAULT_TEMPERATURE
    /\ NoHandler
    /\ UNCHANGED submitted

\* lines 106-108: the Clear Chat History button, then st.rerun()
ClearChat ==
    /\ pc \in Resting
    /\ messages' = << >>
    /\ NoHandler
    /\ UNCHANGED <<model, selected_lang, level, temperature, submitted>>

\* lines 88-96: a sidebar widget is moved, which reruns the script
ChangeSettings(language, lvl, temp) ==
    /\ pc \in Resting
    /\ <<language, lvl, temp>> # <<selected_lang, level, temperature>>
    /\ selected_lang' = language
    /\ level' = lvl
    /\ temperature' = temp
    /\ NoHandler
    /\ UNCHANGED <<messages, model, submitted>>

Next ==
    \/ \E text \in Prompts, s \in Streams :
          Submit(text, s) /\ UNCHANGED <<trim_vars, san_vars>>
    \/ NextChunk /\ UNCHANGED <<trim_vars, san_vars>>
    \/ EndOfStream /\ UNCHANGED <<trim_vars, san_vars>>
    \/ ServiceFails /\ UNCHANGED <<trim_vars, san_vars>>
    \/ ClearChat /\ UNCHANGED <<trim_vars, san_vars>>
    \/ \E language \in Langs, lvl \in Levels, temp \in Temperatures :
          ChangeSettings(language, lvl, temp) /\ UNCHANGED <<trim_vars, san_vars>>

Spec == Init /\ [][Next]_vars

\* lines 163-195: the loop takes every fragment the service delivers and the
\* code after it runs once the service signals the end of the sequence
StreamProgress ==
    (NextChunk \/ EndOfStream) /\ UNCHANGED <<trim_vars, san_vars>>

-----------------------------------------------------------------------------
(* A session that has been running for a while *)

\* the i-th turn of a log left by earlier requests: with pairs, every request
\* completed; without, every request failed or came back empty
SeedTurn(i, paired) ==
    IF paired /\ i % 2 = 0
    THEN Turn("assistant", IF i % 4 = 2 THEN "Hello world" ELSE "hi")
    ELSE Turn("user", IF i % 4 = 1 THEN "how?" ELSE "why?")

SeedLog(n, paired) == [i \in 1..n |-> SeedTurn(i, paired)]

SeedLogs == {SeedLog(n, paired) : n \in 0..MaxSeed, paired \in BOOLEAN}

\* the session is picked up with one submission left to explore
InitLong ==
    /\ messages \in SeedLogs
    /\ model = DEFAULT_MODEL
    /\ selected_lang = "Python"
    /\ level = "Beginner"
    /\ temperature = DEFAULT_TEMPERATURE
    /\ pc = "idle"
    /\ prompt = ""
    /\ log_before = << >>
    /\ prior_history = << >>
    /\ context_messages = << >>
    /\ request = NoRequest
    /\ stream = << >>
    /\ consumed = << >>
    /\ full_response = ""
    /\ updates = << >>
    /\ error_shown = FALSE
    /\ submitted = MaxSubmit - 1
    /\ FunctionsIdle

SpecLong == InitLong /\ [][Next]_vars

\* a session picked up with one submission left to explore, on a short log
InitLive ==
    /\ InitLong
    /\ Len(messages) <= MaxLiveSeed

\* the service delivers every fragment, signals the end of the sequence or
\* fails; the handler then takes the fragment or runs the code after the loop
SpecLive == InitLive /\ [][Next]_vars /\ WF_vars(StreamProgress)

-----------------------------------------------------------------------------
(* get_trimmed_history on its own *)

Roles == {"user", "assistant", "system"}
Letters == << "a", "b", "c" >>

TrimLog(roles) ==
    [i \in 1..Len(roles) |-> Turn(roles[i], Letters[(i % 3) + 1])]

TrimLogs == {TrimLog(roles) : roles \in UNION {[1..n -> Roles] : n \in 0..MaxTrimLen}}

InitTrim ==
    /\ SessionInit
    /\ trim_messages \in TrimLogs
    /\ trim_max_pairs \in 0..MaxPairs
    /\ trim_result = [done |-> FALSE, value |-> << >>]
    /\ san_text = ""
    /\ san_once = [done |-> FALSE, value |-> ""]
    /\ san_twice = [done |-> FALSE, value |-> ""]

ApplyTrim ==
    /\ ~trim_result.done
    /\ trim_result' = [done |-> TRUE,
                       value |-> get_trimmed_history(trim_messages, trim_max_pairs)]
    /\ UNCHANGED <<session_vars, request_vars, submitted, trim_messages,
                   trim_max_pairs, san_vars>>

SpecTrim == InitTrim /\ [][ApplyTrim]_vars

-----------------------------------------------------------------------------
(* sanitize_output on its own *)

Pieces == {"<|fim_", "prefix|>", "<|fim_prefix|>", "<|fim_suffix|>", "<|fim_pre",
           "fix|>", "<|file_separator|>", "a", " "}

RECURSIVE Texts(_)
Texts(n) ==
    IF n = 0 THEN {""}
    ELSE Texts(n - 1) \cup {t \o piece : t \in Texts(n - 1), piece \in Pieces}

InitSan ==
    /\ SessionInit
    /\ trim_messages = << >> /\ trim_max_pairs = 0
    /\ trim_result = [done |-> FALSE, value |-> << >>]
    /\ san_text \in Texts(MaxPieces)
    /\ san_once = [done |-> FALSE, value |-> ""]
    /\ san_twice = [done |-> FALSE, value |-> ""]

ApplySanitize ==
    /\ ~san_once.done
    /\ san_once' = [done |-> TRUE, value |-> sanitize_output(san_text)]
    /\ UNCHANGED <<session_vars, request_vars, submitted, trim_vars, san_text, san_twice>>

ApplyAgain ==
    /\ san_once.done /\ ~san_twice.done
    /\ san_twice' = [done |-> TRUE, value |-> sanitize_output(san_once.value)]
    /\ UNCHANGED <<session_vars, request_vars, submitted, trim_vars, san_text, san_once>>

NextSan == ApplySanitize \/ ApplyAgain

SpecSan == InitSan /\ [][NextSan]_vars

-----------------------------------------------------------------------------
(* Properties *)

Last(seq) == seq[Len(seq)]
UserTurn == Turn("user", prompt)

\* C1: whenever no request is in flight, no two adjacent entries of the turn
\* log have the same role and no entry has role system.
C1_RolesAlternate ==
    pc \in Resting =>
        /\ \A i \in 1..Len(messages) : messages[i].role # "system"
        /\ \A i \in 1..(Len(messages) - 1) : messages[i].role # messages[i + 1].role

\* C2: the context window handed to the service is one system turn built from
\* the current language and level, then the last min(|log|, 2 * MAX_HISTORY)
\* entries of the log as it was before the submission, in order and unchanged,
\* then one user turn with the submitted text; with an empty prior log it is
\* exactly [system, user].
C2_ContextWindow ==
    pc # "idle" =>
        LET n == Len(log_before)
            k == IF n < 2 * MAX_HISTORY THEN n ELSE 2 * MAX_HISTORY
            sys == Turn("system", build_system_prompt(selected_lang, level))
        IN  /\ request.messages = context_messages
            /\ Len(context_messages) = 2 + k
            /\ context_messages[1] = sys
            /\ \A j \in 1..k : context_messages[1 + j] = log_before[n - k + j]
            /\ context_messages[2 + k] = UserTurn
            /\ n = 0 => context_messages = << sys, UserTurn >>

\* a submission made on a log longer than the window
C2_Witness ==
    /\ pc = "awaiting"
    /\ Len(log_before) > 2 * MAX_HISTORY
    /\ Len(context_messages) = 2 + 2 * MAX_HISTORY

IsSuffix(r, e) ==
    /\ Len(r) <= Len(e)
    /\ \A i \in 1..Len(r) : r[i] = e[Len(e) - Len(r) + i]

\* C3: for every log and every bound k >= 0, get_trimmed_history returns at
\* most 2k entries, a suffix of the log's user/assistant entries; all of them
\* when there are fewer than 2k, and none for an empty log.
C3_TrimContract ==
    trim_result.done =>
        LET eligible == ChatMessages(trim_messages)
            r == trim_result.value
        IN  /\ Len(r) <= 2 * trim_max_pairs
            /\ IsSuffix(r, eligible)
            /\ Len(eligible) < 2 * trim_max_pairs => r = eligible
            /\ trim_messages = << >> => r = << >>

\* C4: when the service fails, before or after fragments were accumulated, the
\* log is the log before the submission plus the user turn alone, which is its
\* last entry, the error is shown, and neither a final text nor a warning is.
C4_ServiceFailureAborts ==
    pc = "failed" =>
        /\ messages = Append(log_before, UserTurn)
        /\ Last(messages) = UserTurn
        /\ error_shown
        /\ \A i \in 1..Len(updates) :
              /\ updates[i].kind = "markdown"
              /\ SubSeq(updates[i].text, Len(updates[i].text), Len(updates[i].text)) = CURSOR

\* the service failed after text had been accumulated
C4_Witness ==
    /\ pc = "failed"
    /\ full_response # ""
    /\ consumed # << >>

\* C5: when the stream ends and the buffer is empty once sanitized and
\* stripped, the step appends nothing to the log, shows the warning and shows
\* no error.
C5_EmptyResponse ==
    [][ (/\ pc \in InFlight
         /\ pc' \in {"completed", "empty"}
         /\ Strip(sanitize_output(full_response)) = "")
        => (/\ pc' = "empty"
            /\ messages' = messages
            /\ Last(updates') = Warning
            /\ ~error_shown') ]_vars

\* a stream of tokens and whitespace only came back empty
C5_Witness ==
    /\ pc = "empty"
    /\ Len(updates) > 1
    /\ Last(updates) = Warning
    /\ messages = Append(log_before, UserTurn)

\* the text of a fragment that carries one
TextBearing(c) ==
    /\ c.shape \in {"dict", "object"}
    /\ c.message = "present"
    /\ c.content.type = "str"
    /\ c.content.val # ""

\* f1..fn: the texts of the text-bearing fragments among chunks
Fragments(chunks) ==
    LET tb == SelectSeq(chunks, TextBearing)
    IN  [i \in 1..Len(tb) |-> tb[i].content.val]

RECURSIVE SanConcat(_, _)
\* sanitize(f1) + ... + sanitize(fi)
SanConcat(f, i) ==
    IF i = 0 THEN "" ELSE SanConcat(f, i - 1) \o sanitize_output(f[i])

\* C6: with f1..fn the text-bearing fragments consumed so far, the i-th
\* incremental update shows sanitize(f1) + ... + sanitize(fi), the buffer while
\* streaming is that sum for i = n, and a stream that ends with a non-empty
\* stripped sanitize of the full buffer appends exactly one assistant turn with
\* that content, which is also the last update shown.
C6_BufferAndFinalTurn ==
    LET f == Fragments(consumed)
        n == Len(f)
        final == Strip(sanitize_output(SanConcat(f, n)))
    IN  /\ Len(updates) >= n
        /\ \A i \in 1..n : updates[i] = Markdown(SanConcat(f, i) \o CURSOR)
        /\ pc = "streaming" => full_response = SanConcat(f, n)
        /\ (pc \in {"completed", "empty"} /\ final # "") =>
              /\ pc = "completed"
              /\ full_response = final
              /\ messages = log_before \o << UserTurn, Turn("assistant", final) >>
              /\ Len(updates) = n + 1
              /\ Last(updates) = Markdown(final)

\* the stream "Hel", "lo", " <|fim_prefix|>world" has completed
C6_Witness ==
    /\ pc = "completed"
    /\ Fragments(consumed) = << "Hel", "lo", " <|fim_prefix|>world" >>
    /\ updates = << Markdown("Hel" \o CURSOR), Markdown("Hello" \o CURSOR),
                    Markdown("Hello world" \o CURSOR), Markdown("Hello world") >>
    /\ Last(messages) = Turn("assistant", "Hello world")

\* a fragment whose text cannot be extracted
Malformed(c) ==
    \/ c.shape \in {"dict", "object"} /\ c.message = "null"
    \/ c.shape \in {"dict", "object"} /\ c.message = "present" /\ c.content.type = "int"

WellFormed(chunks) == SelectSeq(chunks, LAMBDA c : ~Malformed(c))

RECURSIVE BufferOf(_)
\* the buffer the loop builds from a stream
BufferOf(chunks) ==
    IF chunks = << >> THEN ""
    ELSE (IF ChunkStep(Head(chunks)).appends THEN ChunkStep(Head(chunks)).token ELSE "")
         \o BufferOf(Tail(chunks))

C7_SameAsWithout ==
    LET clean == BufferOf(WellFormed(consumed))
    IN  /\ pc = "streaming" => full_response = clean
        /\ pc \in {"completed", "empty"} =>
              /\ full_response = FinalText(clean)
              /\ (pc = "completed") <=> (FinalText(clean) # "")
              /\ messages = IF FinalText(clean) # ""
                            THEN log_before \o << UserTurn, Turn("assistant", FinalText(clean)) >>
                            ELSE Append(log_before, UserTurn)
        /\ Len(updates) >= Len(Fragments(WellFormed(consumed)))

C7_Swallowed ==
    /\ (Len(consumed') > Len(consumed) /\ Malformed(Last(consumed'))) =>
          /\ pc' = "streaming"
          /\ UNCHANGED <<messages, full_response, updates, error_shown>>
    /\ (pc' = "failed" /\ pc # "failed") => consumed' = consumed

\* C7: a step that takes a malformed fragment changes neither the buffer, the
\* display, the log nor the error state and goes on streaming; the buffer, the
\* outcome and the log are those of the stream with the malformed fragments
\* removed; and no step that takes a fragment ends in FAILED.
C7_MalformedSkipped == []C7_SameAsWithout /\ [][C7_Swallowed]_vars

\* a stream with a malformed fragment in its middle has completed
C7_Witness ==
    /\ pc = "completed"
    /\ \E i \in 1..Len(consumed) : Malformed(consumed[i])
    /\ Len(WellFormed(consumed)) < Len(consumed)
    /\ full_response = "Hello"
    /\ ~error_shown

Terminal == {"completed", "empty", "failed"}

C8_Order ==
    (pc' # pc \/ submitted' # submitted) =>
        \/ pc \in Resting /\ pc' = "awaiting" /\ submitted' = submitted + 1
        \/ pc \in Resting /\ pc' = "idle" /\ submitted' = submitted
        \/ pc = "awaiting" /\ pc' \in {"streaming", "empty", "failed"}
              /\ submitted' = submitted
        \/ pc = "streaming" /\ pc' \in Terminal /\ submitted' = submitted

C8_Appends ==
    /\ (pc \in InFlight /\ pc' = "completed") =>
          /\ Len(messages') = Len(messages) + 1
          /\ SubSeq(messages', 1, Len(messages)) = messages
          /\ Last(messages').role = "assistant"
    /\ (pc \in InFlight /\ pc' \in {"empty", "failed"}) => messages' = messages
    /\ (pc \in InFlight /\ pc' \in InFlight) => messages' = messages

\* C8: a request starts from rest, goes to AWAITING_FIRST_FRAGMENT, then to
\* STREAMING, then to one of COMPLETED, EMPTY, FAILED, never backwards and never
\* from one terminal state to another; the step into COMPLETED appends exactly
\* one assistant turn, the steps into EMPTY and FAILED append nothing.
C8_StateMachine == [][C8_Order /\ C8_Appends]_vars

\* a request that went through every stage and completed
C8_Witness ==
    /\ pc = "completed"
    /\ Len(consumed) >= 2
    /\ Len(messages) = Len(log_before) + 2

\* C9: while a request runs and after it ended EMPTY or FAILED the log is the
\* log before the submission plus the user turn; after COMPLETED it is that
\* plus one assistant turn holding the final text of the whole stream.
C9_NoPartialUpdate ==
    /\ pc \in InFlight \cup {"empty", "failed"} =>
          messages = Append(log_before, UserTurn)
    /\ pc = "completed" =>
          /\ stream = << >>
          /\ full_response = FinalText(BufferOf(consumed))
          /\ messages = log_before \o << UserTurn, Turn("assistant", full_response) >>

\* a second request completed on top of an earlier one's turns
C9_Witness ==
    /\ pc = "completed"
    /\ Len(log_before) >= 2
    /\ Len(consumed) >= 2
    /\ SubSeq(messages, 1, Len(log_before)) = log_before

\* C10: sanitize_output applied twice gives what it gives applied once.
C10_Idempotent ==
    san_twice.done => san_twice.value = san_once.value

\* tok occurs in text
Contains(text, tok) == \E i \in 1..Len(text) : MatchAt(text, tok, i)

HasBadToken(text) == \E k \in 1..Len(BAD_TOKENS) : Contains(text, BAD_TOKENS[k])

RECURSIVE IsSubsequence(_, _)
\* r is t with some characters left out, the others in their order
IsSubsequence(r, t) ==
    IF r = "" THEN TRUE
    ELSE IF t = "" THEN FALSE
    ELSE IF SubSeq(r, 1, 1) = SubSeq(t, 1, 1)
         THEN IsSubsequence(Tail(r), Tail(t))
         ELSE IsSubsequence(r, Tail(t))

\* C11: the result of sanitize_output holds no denylist token, and is the
\* input with characters left out, the kept ones in their original order.
C11_NoTokenLeft ==
    san_once.done =>
        /\ ~HasBadToken(san_once.value)
        /\ IsSubsequence(san_once.value, san_text)

C12_ClearStep ==
    Len(messages') < Len(messages) =>
        /\ pc \in Resting
        /\ messages' = << >>
        /\ UNCHANGED <<model, selected_lang, level, temperature>>

\* C12: the only step that removes entries from the turn log is the clear; it
\* empties the log and leaves the model identifier, the language, the level and
\* the temperature as they were; and the clear can be taken whenever no request
\* is running, whatever the last request's outcome.
C12_ClearKeepsConfig ==
    [](pc \in Resting => ENABLED ClearChat) /\ [][C12_ClearStep]_vars

\* the log was cleared after a request, under settings that are not the defaults
C12_Witness ==
    /\ messages = << >>
    /\ pc = "idle"
    /\ submitted > 0
    /\ model = DEFAULT_MODEL
    /\ selected_lang = "C++"
    /\ level = "Advanced"
    /\ temperature = 10

C13_FreshStart ==
    (pc \in Resting /\ pc' = "awaiting") =>
        /\ full_response' = ""
        /\ updates' = << >>
        /\ consumed' = << >>
        /\ ~error_shown'

C13_OwnFragmentsOnly ==
    /\ pc = "awaiting" => full_response = "" /\ updates = << >>
    /\ pc = "streaming" => full_response = BufferOf(consumed)
    /\ pc \in InFlight =>
          \A i \in 1..Len(updates) :
              updates[i] = Markdown(SanConcat(Fragments(consumed), i) \o CURSOR)
    /\ pc = "completed" =>
          Last(messages) = Turn("assistant", FinalText(BufferOf(consumed)))

\* C13: every submission starts with an empty buffer, no update shown, no
\* fragment taken and no error, whatever the earlier request left behind; the
\* buffer, the updates and the stored assistant turn of a request are computed
\* from that request's own fragments alone.
C13_PerRequestState == []C13_OwnFragmentsOnly /\ [][C13_FreshStart]_vars

\* a second request is streaming text after the first left its user turn alone
C13_Witness ==
    /\ pc = "streaming"
    /\ submitted = 2
    /\ Last(log_before).role = "user"
    /\ full_response # ""
    /\ full_response = BufferOf(consumed)

C14_FrozenWhileStreaming ==
    /\ (pc \in InFlight /\ pc' \in InFlight \cup {"failed"}) => messages' = messages
    /\ (pc \in InFlight /\ messages' # messages) =>
          /\ stream = << >>
          /\ stream' = << >>
          /\ consumed' = consumed
          /\ pc' = "completed"
          /\ messages' = Append(messages, Turn("assistant", full_response'))

\* C14: from the service call until the stream is exhausted or the service
\* fails no step changes the turn log; a step of a running request that changes
\* it takes no fragment, finds the stream exhausted, ends the request COMPLETED
\* and appends the assistant turn.
C14_LogMutatedAfterStream == [][C14_FrozenWhileStreaming]_vars

\* fragments are being consumed and the log still ends with the user turn
C14_Witness ==
    /\ pc = "streaming"
    /\ Len(consumed) >= 2
    /\ stream # << >>
    /\ full_response # ""
    /\ messages = Append(log_before, UserTurn)

\* the number of incremental updates pushed so far: all of them but the final
\* render or warning of a stream that has ended
NumIncremental ==
    IF pc \in {"completed", "empty"} THEN Len(updates) - 1 ELSE Len(updates)

\* the number of appends made to the buffer: one per text-bearing fragment taken
NumAppends == Len(SelectSeq(consumed, TextBearing))

\* an incremental update's text without its cursor
Shown(u) == SubSeq(u.text, 1, Len(u.text) - Len(CURSOR))

IsPrefix(a, b) == Len(a) <= Len(b) /\ SubSeq(b, 1, Len(a)) = a

C15_CountsAgree ==
    /\ NumIncremental = NumAppends
    /\ \A i \in 1..NumIncremental :
          /\ updates[i].kind = "markdown"
          /\ updates[i].text = Shown(updates[i]) \o CURSOR
    /\ \A i \in 1..(NumIncremental - 1) :
          IsPrefix(Shown(updates[i]), Shown(updates[i + 1]))
    /\ (pc = "streaming" /\ NumIncremental > 0) =>
          Shown(updates[NumIncremental]) = full_response

C15_PushedWithAppend ==
    (Len(consumed') > Len(consumed) /\ TextBearing(Last(consumed'))) =>
        updates' = Append(updates, Markdown(full_response' \o CURSOR))

\* C15: the step that appends a fragment's text to the buffer pushes the
\* update showing the new buffer and the cursor; at every point the number of
\* incremental updates equals the number of appends, each shown buffer is a
\* prefix of the next, and while streaming the last one shows the buffer.
C15_DisplaySynchronous == []C15_CountsAgree /\ [][C15_PushedWithAppend]_vars

\* three appends and three incremental updates, the stream not yet ended
C15_Witness ==
    /\ pc = "streaming"
    /\ NumAppends = 3
    /\ Len(updates) = 3
    /\ Shown(updates[3]) = "Hello world"

\* C16: a request that has been started reaches COMPLETED, EMPTY or FAILED;
\* none stays in AWAITING_FIRST_FRAGMENT or STREAMING forever.
C16_EventuallyResolves == (pc \in InFlight) ~> (pc \in Terminal)

\* a request resolved after the service had delivered all its fragments
C16_Witness ==
    /\ pc \in {"completed", "empty"}
    /\ Len(consumed) = 3
    /\ stream = << >>

\* the texts pushed to the display and stored as assistant turns
ShownTexts == {updates[i].text : i \in 1..Len(updates)}
StoredReplies ==
    {messages[i].content : i \in {j \in 1..Len(messages) : messages[j].role = "assistant"}}

\* C17: no incremental update, no final update and no assistant turn of the
\* log holds a denylist token.
C17_NoTokenReachesUser ==
    \A text \in ShownTexts \cup StoredReplies : ~HasBadToken(text)

IsWhitespace(ch) == ch \in Whitespace

\* C18: every assistant turn of the log has content that is not empty and
\* neither starts nor ends with a whitespace character.
C18_StoredRepliesTrimmed ==
    \A i \in 1..Len(messages) :
        messages[i].role = "assistant" =>
            LET c == messages[i].content
            IN  /\ c # ""
                /\ ~IsWhitespace(SubSeq(c, 1, 1))
                /\ ~IsWhitespace(SubSeq(c, Len(c), Len(c)))

\* a reply streamed with blanks around it was stored without them
C18_Witness ==
    /\ pc = "completed"
    /\ Fragments(consumed) = << "  hi \n" >>
    /\ Last(messages) = Turn("assistant", "hi")

====
